---- MODULE Spec2Model ----
(***************************************************************************)
(* Divide-and-conquer convex hull (src/src/convex_hull.py).                *)
(*                                                                         *)
(* compute_hull is modelled as a state machine over an explicit call       *)
(* stack: one frame per compute_hull call, with base_case_hull and         *)
(* merge_hulls running inside the frame of their caller.  Every loop whose *)
(* termination is not syntactically evident (the gift-wrapping `while      *)
(* True` and the four tangent scans) advances one iteration per step.      *)
(* Python lists are sequences; indices keep the 0-based values of the      *)
(* source and are read through At.                                         *)
(***************************************************************************)
EXTENDS Integers, Sequences, FiniteSets, TLC

\* ------------------------------------------------------------------ bounds
MaxX == 2
MaxY == 2
MaxPoints == 6
MaxRepeated == 3
MaxHullSize == 4

Grid == (0..MaxX) \X (0..MaxY)

\* ----------------------------------------------------------------- helpers
At(s, i) == s[i + 1]

Range(s) == {s[k] : k \in 1..Len(s)}

\* s[m], ..., s[n] (1-based), empty when n < m.
Slice(s, m, n) == [k \in 1..(n - m + 1) |-> s[m + k - 1]]


\* Tuple comparison of Python: x first, then y.
LexLess(a, b) == a[1] < b[1] \/ (a[1] = b[1] /\ a[2] < b[2])

\* list.sort() on a list of points (lines 99, 241).
Sort(s) == SortSeq(s, LexLess)

\* The points of S in ascending order: list(set(points)) followed by
\* points.sort() (lines 239-241).  The order in which Python iterates over
\* the set does not matter, the sort fixes the result.
SetToSortedSeq(S) ==
    [k \in 1..Cardinality(S) |->
        CHOOSE pt \in S : Cardinality({q \in S : LexLess(q, pt)}) = k - 1]

\* ------------------------------------------------- orientation predicates
\* The float returned by the source, in units of 1/2: the numerator of the
\* division by 2, an integer for integer points.
triangle_area(a, b, c) ==
    (c[1] - b[1]) * (b[2] - a[2]) - (b[1] - a[1]) * (c[2] - b[2])

\* EPSILON is 2^-52; a multiple of 1/2 is below -EPSILON iff it is negative.
is_clockwise(a, b, c) == triangle_area(a, b, c) < 0

\* The comparison `> -EPSILON` in place of `> EPSILON`: collinear triples
\* count as counter-clockwise.
is_counter_clockwise_tolerant(a, b, c) == triangle_area(a, b, c) >= 0

is_counter_clockwise(a, b, c) == triangle_area(a, b, c) > 0

collinear(a, b, c) == triangle_area(a, b, c) = 0

\* ---------------------------------------------------------- point ordering
RECURSIVE SumCoord(_, _)
SumCoord(s, c) == IF s = <<>> THEN 0 ELSE Head(s)[c] + SumCoord(Tail(s), c)

\* point - centroid, scaled by len(points) > 0 so that it stays an integer
\* vector; atan2 depends on the direction of the vector only.
FromCentroid(points, pt) ==
    <<Len(points) * pt[1] - SumCoord(points, 1),
      Len(points) * pt[2] - SumCoord(points, 2)>>

\* Where (atan2(dy, dx) + tau) % tau falls: 0 for the angle 0 (atan2(0, 0) is
\* 0 too), 1 for (0, pi), 2 for pi, 3 for (pi, tau).
Sector(d) ==
    IF d[2] = 0 THEN (IF d[1] >= 0 THEN 0 ELSE 2)
    ELSE IF d[2] > 0 THEN 1 ELSE 3

AngleLess(d, e) ==
    \/ Sector(d) < Sector(e)
    \/ /\ Sector(d) = Sector(e)
       /\ Sector(d) \in {1, 3}
       /\ d[1] * e[2] - d[2] * e[1] > 0

AngleEq(d, e) ==
    /\ Sector(d) = Sector(e)
    /\ Sector(d) \in {1, 3} => d[1] * e[2] - d[2] * e[1] = 0

\* sort_key(a) < sort_key(b) for the tuples (normalized_angle, x, y).
sort_key_less(points, a, b) ==
    LET d == FromCentroid(points, a)
        e == FromCentroid(points, b)
    IN  AngleLess(d, e) \/ (AngleEq(d, e) /\ LexLess(a, b))

sort_clockwise(points) ==
    IF Len(points) < 2 THEN points
    ELSE SortSeq(points, LAMBDA a, b : sort_key_less(points, a, b))

\* -------------------------------------------------------------------- state
VARIABLES
    arg,      \* the list handed to the outermost compute_hull call
    stack,    \* call stack, innermost frame last
    result,   \* the value the outermost call returned
    calls,    \* outermost calls that have returned
    first     \* the value returned by the first outermost call

vars == <<arg, stack, result, calls, first>>

\* The locals of compute_hull and of the base_case_hull or merge_hulls call it
\* makes; pc is the position in the code.
Frame(points) ==
    [pc |-> "compute_hull", points |-> points, L |-> <<>>, R |-> <<>>,
     hull |-> <<>>, p |-> 0,
     right_of_left_idx |-> 0, left_of_right_idx |-> 0,
     upper_tangent |-> <<0, 0>>, lower_tangent |-> <<0, 0>>,
     right_progress |-> FALSE, left_progress |-> FALSE]

top == stack[Len(stack)]

SetTop(f) == [stack EXCEPT ![Len(stack)] = f]

\* `return val` of the innermost compute_hull: the caller, waiting at line 254
\* or line 255, binds it to L or R; the outermost call hands it out.
Return(val) ==
    IF Len(stack) = 1
    THEN /\ stack' = <<>>
         /\ result' = val
         /\ calls' = calls + 1
         /\ UNCHANGED <<arg, first>>
    ELSE LET caller == stack[Len(stack) - 1]
             back == IF caller.pc = "call_L"
                     THEN [caller EXCEPT !.L = val, !.pc = "call_R"]
                     ELSE [caller EXCEPT !.R = val, !.pc = "merge_hulls"]
         IN  /\ stack' = [Slice(stack, 1, Len(stack) - 1)
                             EXCEPT ![Len(stack) - 1] = back]
             /\ UNCHANGED <<arg, result, calls, first>>

Step(f) == /\ stack' = SetTop(f)
           /\ UNCHANGED <<arg, result, calls, first>>

\* ------------------------------------------------------------ compute_hull
\* points = list(set(points)); points.sort()
Dedup ==
    /\ stack # <<>>
    /\ top.pc = "compute_hull"
    /\ Step([top EXCEPT !.points = SetToSortedSeq(Range(top.points)),
                        !.pc = "branch"])

\* if len(points) <= 5: return base_case_hull(points)
CallBase ==
    /\ stack # <<>>
    /\ top.pc = "branch"
    /\ Len(top.points) <= 5
    /\ Step([top EXCEPT !.pc = "base_case_hull"])

\* middle, L, R and the call compute_hull(L)
Split ==
    /\ stack # <<>>
    /\ top.pc = "branch"
    /\ Len(top.points) > 5
    /\ LET middle == Len(top.points) \div 2
           L == Slice(top.points, 1, middle)
           R == Slice(top.points, middle + 1, Len(top.points))
       IN  /\ stack' = Append(SetTop([top EXCEPT !.L = L, !.R = R,
                                                 !.pc = "call_L"]),
                              Frame(L))
           /\ UNCHANGED <<arg, result, calls, first>>

\* R = compute_hull(R)
CallRight ==
    /\ stack # <<>>
    /\ top.pc = "call_R"
    /\ stack' = Append(stack, Frame(top.R))
    /\ UNCHANGED <<arg, result, calls, first>>

\* ---------------------------------------------------------- base_case_hull
\* if len(points) <= 3: return points
BaseSmall ==
    /\ stack # <<>>
    /\ top.pc = "base_case_hull"
    /\ Len(top.points) <= 3
    /\ Return(top.points)

\* points.sort(); hull = []; p = 0
BaseInit ==
    /\ stack # <<>>
    /\ top.pc = "base_case_hull"
    /\ Len(top.points) > 3
    /\ Step([top EXCEPT !.points = Sort(top.points), !.hull = <<>>,
                        !.p = 0, !.pc = "wrap"])

\* for i in range(len(points)): if is_counter_clockwise(p, i, q): q = i
RECURSIVE Scan(_, _, _, _)
Scan(points, p, q, i) ==
    IF i >= Len(points) THEN q
    ELSE Scan(points, p,
              IF is_counter_clockwise(At(points, p), At(points, i),
                                      At(points, q))
              THEN i ELSE q,
              i + 1)

\* One iteration of the gift-wrapping loop, and the return when it breaks.
Wrap ==
    /\ stack # <<>>
    /\ top.pc = "wrap"
    /\ LET hull == IF Len(top.hull) < Len(top.points)
                   THEN Append(top.hull, At(top.points, top.p))
                   ELSE top.hull    \* p repeats: the loop no longer exits
           q == Scan(top.points, top.p, (top.p + 1) % Len(top.points), 0)
       IN  IF q = 0
           THEN Return(hull)
           ELSE Step([top EXCEPT !.hull = hull, !.p = q])

\* ------------------------------------------------------------- merge_hulls
\* L.index(max(L, key=lambda p: p[0])): the first index of a largest x.
IndexOfMaxX(L) ==
    CHOOSE i \in 0..(Len(L) - 1) :
        /\ \A k \in 0..(Len(L) - 1) : At(L, k)[1] <= At(L, i)[1]
        /\ \A k \in 0..(i - 1) : At(L, k)[1] < At(L, i)[1]

\* R.index(min(R, key=lambda p: p[0])): the first index of a smallest x.
IndexOfMinX(R) ==
    CHOOSE j \in 0..(Len(R) - 1) :
        /\ \A k \in 0..(Len(R) - 1) : At(R, k)[1] >= At(R, j)[1]
        /\ \A k \in 0..(j - 1) : At(R, k)[1] > At(R, j)[1]

\* sort_clockwise(L); sort_clockwise(R); the anchors; the first round of the
\* upper-tangent search begins.
MergeInit ==
    /\ stack # <<>>
    /\ top.pc = "merge_hulls"
    /\ LET L == sort_clockwise(top.L)
           R == sort_clockwise(top.R)
           i == IndexOfMaxX(L)
           j == IndexOfMinX(R)
       IN  Step([top EXCEPT !.L = L, !.R = R,
                            !.right_of_left_idx = i, !.left_of_right_idx = j,
                            !.upper_tangent = <<i, j>>,
                            !.right_progress = FALSE, !.left_progress = FALSE,
                            !.pc = "upper_right"])

\* One test of the first inner loop of the upper-tangent search.
UpperRight ==
    /\ stack # <<>>
    /\ top.pc = "upper_right"
    /\ LET t == top.upper_tangent
           next_right == (t[2] + 1) % Len(top.R)
       IN  IF is_counter_clockwise(At(top.L, t[1]), At(top.R, t[2]),
                                   At(top.R, next_right))
           THEN Step([top EXCEPT !.upper_tangent = <<t[1], next_right>>,
                                 !.right_progress = TRUE])
           ELSE Step([top EXCEPT !.pc = "upper_left"])

\* One test of the second inner loop; when it breaks, the round ends: either
\* the search is over and the lower-tangent search begins, or a new round.
UpperLeft ==
    /\ stack # <<>>
    /\ top.pc = "upper_left"
    /\ LET t == top.upper_tangent
           next_left == (t[1] - 1) % Len(top.L)
       IN  IF is_clockwise(At(top.R, t[2]), At(top.L, t[1]),
                           At(top.L, next_left))
           THEN Step([top EXCEPT !.upper_tangent = <<next_left, t[2]>>,
                                 !.left_progress = TRUE])
           ELSE IF ~top.right_progress /\ ~top.left_progress
           THEN Step([top EXCEPT
                        !.lower_tangent = <<top.right_of_left_idx,
                                            top.left_of_right_idx>>,
                        !.pc = "lower_right"])
           ELSE Step([top EXCEPT !.right_progress = FALSE,
                                 !.left_progress = FALSE,
                                 !.pc = "upper_right"])

\* One test of the first inner loop of the lower-tangent search.
LowerRight ==
    /\ stack # <<>>
    /\ top.pc = "lower_right"
    /\ LET t == top.lower_tangent
           next_right == (t[2] - 1) % Len(top.R)
       IN  IF is_clockwise(At(top.L, t[1]), At(top.R, t[2]),
                           At(top.R, next_right))
           THEN Step([top EXCEPT !.lower_tangent = <<t[1], next_right>>,
                                 !.right_progress = TRUE])
           ELSE Step([top EXCEPT !.pc = "lower_left"])

\* One test of the second inner loop; when it breaks, the round ends.
LowerLeft ==
    /\ stack # <<>>
    /\ top.pc = "lower_left"
    /\ LET t == top.lower_tangent
           next_left == (t[1] + 1) % Len(top.L)
       IN  IF is_counter_clockwise(At(top.R, t[2]), At(top.L, t[1]),
                                   At(top.L, next_left))
           THEN Step([top EXCEPT !.lower_tangent = <<next_left, t[2]>>,
                                 !.left_progress = TRUE])
           ELSE IF ~top.right_progress /\ ~top.left_progress
           THEN Step([top EXCEPT !.pc = "stitch"])
           ELSE Step([top EXCEPT !.right_progress = FALSE,
                                 !.left_progress = FALSE,
                                 !.pc = "lower_right"])

\* for i in range(lower_tangent[0], upper_tangent[0] + 1): L[i]
MergeLeft(L, lower_tangent, upper_tangent) ==
    Slice(L, lower_tangent[1] + 1, upper_tangent[1] + 1)

\* The two branches of "Merge Right".
MergeRight(R, lower_tangent, upper_tangent) ==
    IF lower_tangent[2] > upper_tangent[2]
    THEN Slice(R, upper_tangent[2] + 1, lower_tangent[2] + 1)
    ELSE Slice(R, upper_tangent[2] + 1, Len(R))
             \o Slice(R, 1, lower_tangent[2] + 1)

Stitch ==
    /\ stack # <<>>
    /\ top.pc = "stitch"
    /\ Return(MergeLeft(top.L, top.lower_tangent, top.upper_tangent)
                \o MergeRight(top.R, top.lower_tangent, top.upper_tangent))

\* ------------------------------------------------------------------ caller
NoRepeat(s) == Cardinality(Range(s)) = Len(s)

Init ==
    /\ arg = <<>>
    /\ stack = <<>>
    /\ result = <<>>
    /\ calls = 0
    /\ first = <<>>

\* The caller puts its list together: distinct points of the grid, here in
\* descending order.
Choose ==
    /\ stack = <<>>
    /\ calls = 0
    /\ NoRepeat(arg)
    /\ Len(arg) < MaxPoints
    /\ \E pt \in Grid :
          /\ IF arg = <<>> THEN TRUE ELSE LexLess(pt, arg[Len(arg)])
          /\ arg' = Append(arg, pt)
    /\ UNCHANGED <<stack, result, calls, first>>

\* points ++ points: the caller's list holds every point twice.
Repeat ==
    /\ stack = <<>>
    /\ calls = 0
    /\ NoRepeat(arg)
    /\ Len(arg) \in 1..MaxRepeated
    /\ arg' = arg \o arg
    /\ UNCHANGED <<stack, result, calls, first>>

\* The caller evaluates compute_hull(arg).
Call ==
    /\ stack = <<>>
    /\ calls = 0
    /\ stack' = <<Frame(arg)>>
    /\ UNCHANGED <<arg, result, calls, first>>

\* compute_hull(compute_hull(points)): the outer call, on the list the first
\* call returned.
Again ==
    /\ stack = <<>>
    /\ calls = 1
    /\ arg' = result
    /\ first' = result
    /\ stack' = <<Frame(result)>>
    /\ UNCHANGED <<result, calls>>

Run ==
    \/ Dedup
    \/ CallBase
    \/ Split
    \/ CallRight
    \/ BaseSmall
    \/ BaseInit
    \/ Wrap
    \/ MergeInit
    \/ UpperRight
    \/ UpperLeft
    \/ LowerRight
    \/ LowerLeft
    \/ Stitch

Next ==
    \/ Choose
    \/ Repeat
    \/ Call
    \/ Dedup
    \/ CallBase
    \/ Split
    \/ CallRight
    \/ BaseSmall
    \/ BaseInit
    \/ Wrap
    \/ MergeInit
    \/ UpperRight
    \/ UpperLeft
    \/ LowerRight
    \/ LowerLeft
    \/ Stitch

Spec == Init /\ [][Next]_vars

\* The interpreter runs the one enabled step of a call in progress: the
\* program is sequential and deterministic.
FairSpec == Spec /\ WF_vars(Run)

\* compute_hull(compute_hull(points)) as well.
NextTwice ==
    \/ Choose
    \/ Repeat
    \/ Call
    \/ Again
    \/ Dedup
    \/ CallBase
    \/ Split
    \/ CallRight
    \/ BaseSmall
    \/ BaseInit
    \/ Wrap
    \/ MergeInit
    \/ UpperRight
    \/ UpperLeft
    \/ LowerRight
    \/ LowerLeft
    \/ Stitch

SpecTwice == Init /\ [][NextTwice]_vars

\* ------------------------------------------- merge_hulls called on its own
\* Reference geometry, used to state what a convex hull is.
OnSegment(pt, a, b) ==
    /\ collinear(a, b, pt)
    /\ (a[1] <= pt[1] /\ pt[1] <= b[1]) \/ (b[1] <= pt[1] /\ pt[1] <= a[1])
    /\ (a[2] <= pt[2] /\ pt[2] <= b[2]) \/ (b[2] <= pt[2] /\ pt[2] <= a[2])

InTriangle(pt, a, b, c) ==
    /\ ~collinear(a, b, c)
    /\ \/ /\ triangle_area(a, b, pt) >= 0
          /\ triangle_area(b, c, pt) >= 0
          /\ triangle_area(c, a, pt) >= 0
       \/ /\ triangle_area(a, b, pt) <= 0
          /\ triangle_area(b, c, pt) <= 0
          /\ triangle_area(c, a, pt) <= 0

\* pt lies in the convex hull of the finite set T (Caratheodory).
InConv(pt, T) ==
    \/ \E a, b \in T : OnSegment(pt, a, b)
    \/ \E a, b, c \in T : InTriangle(pt, a, b, c)

\* The corners of the convex hull of S.
HullVertices(S) == {pt \in S : ~InConv(pt, S \ {pt})}

ValidHulls ==
    {S \in SUBSET Grid :
        /\ S # {}
        /\ Cardinality(S) <= MaxHullSize
        /\ HullVertices(S) = S}

\* The precondition of merge_hulls as compute_hull establishes it: two hulls
\* without a common point, L at or left of the smallest x of R.
MergePairs ==
    {pr \in ValidHulls \X ValidHulls :
        /\ pr[1] \cap pr[2] = {}
        /\ \A a \in pr[1] : \A b \in pr[2] : a[1] <= b[1]}

InitMerge ==
    \E pr \in MergePairs :
        LET L == SetToSortedSeq(pr[1])
            R == SetToSortedSeq(pr[2])
        IN  /\ arg = L \o R
            /\ stack = <<[Frame(L \o R) EXCEPT !.L = L, !.R = R,
                                               !.pc = "merge_hulls"]>>
            /\ result = <<>>
            /\ calls = 0
            /\ first = <<>>

NextMerge ==
    \/ MergeInit
    \/ UpperRight
    \/ UpperLeft
    \/ LowerRight
    \/ LowerLeft
    \/ Stitch

SpecMerge == InitMerge /\ [][NextMerge]_vars

\* ================================================================== claims
Returned == stack = <<>> /\ calls >= 1

AllCollinear(S) == \A a, b, c \in S : collinear(a, b, c)

\* No input point strictly counter-clockwise of an edge of H, the edges taken
\* in order and wrapping.
Containment(H, S) ==
    \A k \in 1..Len(H) : \A pt \in S :
        ~is_counter_clockwise(H[k], H[(k % Len(H)) + 1], pt)

\* C1: whenever compute_hull has returned H for the input points, no input
\* point is strictly counter-clockwise of an edge of H.
C1_Containment == Returned => Containment(result, Range(arg))

\* C2: every cyclically consecutive triple of the returned hull is clockwise
\* or collinear.
C2_Convexity ==
    Returned =>
        \A k \in 0..(Len(result) - 1) :
            LET a == At(result, k)
                b == At(result, (k + 1) % Len(result))
                c == At(result, (k + 2) % Len(result))
            IN  is_clockwise(a, b, c) \/ collinear(a, b, c)

RemoveAt(H, k) == Slice(H, 1, k - 1) \o Slice(H, k + 1, Len(H))

\* The vertex sequence H encloses S.  A sequence whose vertices all lie on
\* one line stands for the segment they span, the empty sequence for nothing;
\* the edge test alone would accept any S for those.
Encloses(H, S) ==
    IF H = <<>> THEN S = {}
    ELSE IF AllCollinear(Range(H))
    THEN \A pt \in S : \E a, b \in Range(H) : OnSegment(pt, a, b)
    ELSE Containment(H, S)

\* C3: every returned vertex is an input point, and the returned sequence
\* without it no longer encloses the input.
C3_Minimality ==
    Returned =>
        \A k \in 1..Len(result) :
            /\ result[k] \in Range(arg)
            /\ ~Encloses(RemoveAt(result, k), Range(arg))

\* C4: the returned sequence holds no point twice.
C4_NoDuplicates == Returned => Cardinality(Range(result)) = Len(result)

\* C5: for two or more distinct points on one line the result is exactly the
\* two ends of the line.
C5_Collinear ==
    (Returned /\ Cardinality(Range(arg)) >= 2 /\ AllCollinear(Range(arg))) =>
        LET pts == SetToSortedSeq(Range(arg))
        IN  /\ Len(result) = 2
            /\ Range(result) = {pts[1], pts[Len(pts)]}

\* C6: every call of compute_hull that has started returns.
C6_Termination == (stack # <<>>) ~> (stack = <<>>)

\* A call has returned whose input was split into two halves, the left half
\* three points on one line: both tangent searches have run on a degenerate
\* sub-hull with collinear points.
C6_Witness ==
    /\ Returned
    /\ LET pts == SetToSortedSeq(Range(arg))
       IN  /\ Len(pts) > 5
           /\ AllCollinear(Range(Slice(pts, 1, Len(pts) \div 2)))

\* C7: the hull of a returned hull has the same set of vertices.
C7_Idempotence ==
    (stack = <<>> /\ calls = 2) => Range(result) = Range(first)

\* C8: under its precondition merge_hulls returns every corner of the convex
\* hull of L and R, and every point of L and R lies in the polygon of the
\* returned points.
C8_MergeCorrect ==
    Returned =>
        /\ HullVertices(Range(arg)) \subseteq Range(result)
        /\ \A pt \in Range(arg) : InConv(pt, Range(result))

\* No vertex of L or R strictly outside the line through the pair t; for the
\* upper tangent, an edge L[i] -> R[j] of the merged clockwise hull, outside
\* is the counter-clockwise side.
UpperIsTangent(f) ==
    \A pt \in Range(f.L) \cup Range(f.R) :
        ~is_counter_clockwise(At(f.L, f.upper_tangent[1]),
                              At(f.R, f.upper_tangent[2]), pt)

LowerIsTangent(f) ==
    \A pt \in Range(f.L) \cup Range(f.R) :
        ~is_clockwise(At(f.L, f.lower_tangent[1]),
                      At(f.R, f.lower_tangent[2]), pt)

\* C9: once the upper-tangent search has stopped its pair is a tangent, and
\* once the lower-tangent search has stopped so is its pair, on the other
\* side.
C9_Tangents ==
    /\ (stack # <<>> /\ top.pc \in {"lower_right", "lower_left", "stitch"})
           => UpperIsTangent(top)
    /\ (stack # <<>> /\ top.pc = "stitch") => LowerIsTangent(top)

\* The clockwise walk of s from just after index from through index to,
\* wrapping past the end.
WalkAfter(s, from, to) ==
    [k \in 1..(((to - from - 1) % Len(s)) + 1) |-> At(s, (from + k) % Len(s))]

\* C10: the stitch returns the walk of L from just after the lower-tangent
\* index through the upper-tangent index, then the walk of R from just after
\* the upper-tangent index through the lower-tangent index, both wrapping.
C10_Stitch ==
    [][(stack # <<>> /\ top.pc = "stitch") =>
          result' = WalkAfter(top.L, top.lower_tangent[1],
                              top.upper_tangent[1])
                      \o WalkAfter(top.R, top.upper_tangent[2],
                                   top.lower_tangent[2])]_vars

====
